---- MODULE Spec2Model ----
(***************************************************************************)
(* Model of alarm-analysis.py: a wide table of per-room daily alarm counts *)
(* is reshaped to long form, aggregated three ways, charted and            *)
(* summarised.                                                             *)
(*                                                                         *)
(* Representation.                                                         *)
(*  - A string the code takes apart (a column name) is a sequence of       *)
(*    one-character strings.                                               *)
(*  - A room code is a natural number; pandas orders codes as the numbers  *)
(*    are ordered.                                                         *)
(*  - A float is an exact rational [num, den], a standard deviation the    *)
(*    square root of an exact rational, and NaN and +inf are values of     *)
(*    their own.                                                           *)
(*  - A Timestamp is [year, month, day]; NaT is a value of its own.        *)
(*  - matplotlib's style library is the set of the style names it knows,   *)
(*    and pandas_major the major version of pandas: both belong to the     *)
(*    installation the program runs on.                                    *)
(***************************************************************************)
EXTENDS Integers, Sequences, FiniteSets

VARIABLES your_data, style_library, pandas_major, pc, error, df, daily_totals,
          room_totals, room_stats, figure, fig, insights, report

vars == <<your_data, style_library, pandas_major, pc, error, df, daily_totals,
          room_totals, room_stats, figure, fig, insights, report>>

(***************************************************************************)
(* Sequences and numbers                                                   *)
(***************************************************************************)
Range(s) == {s[i] : i \in 1..Len(s)}

RECURSIVE SumSeq(_)
SumSeq(s) == IF s = <<>> THEN 0 ELSE Head(s) + SumSeq(Tail(s))

Max2(a, b) == IF a >= b THEN a ELSE b

RECURSIVE MaxSeq(_)
MaxSeq(s) == IF Len(s) = 1 THEN s[1] ELSE Max2(Head(s), MaxSeq(Tail(s)))

Abs(n) == IF n < 0 THEN -n ELSE n

RECURSIVE Gcd(_, _)
Gcd(a, b) == IF b = 0 THEN a ELSE Gcd(b, a % b)

\* the exact quotient n/d (d # 0) in lowest terms, den > 0
Rat(n, d) ==
  LET g == Gcd(Abs(n), Abs(d))
      s == IF d < 0 THEN -1 ELSE 1
  IN [num |-> (s * n) \div g, den |-> (s * d) \div g]

\* the distinct values of s in ascending order (a group-by's sorted keys)
SortedKeys(s) ==
  LET keys == Range(s)
      F[i \in 0..Cardinality(keys)] ==
        IF i = 0 THEN <<>>
        ELSE Append(F[i - 1],
                    CHOOSE k \in keys :
                      Cardinality({j \in keys : j < k}) = i - 1)
  IN F[Cardinality(keys)]

(***************************************************************************)
(* Strings: column names                                                   *)
(***************************************************************************)
CountPrefix == <<"C", "o", "u", "n", "t", "_">>
RoomCodesName == <<"R", "o", "o", "m", "_", "C", "o", "d", "e", "s">>
RoomsName == <<"R", "o", "o", "m", "s">>
AlarmsName == <<"A", "l", "a", "r", "m", "s">>

\* Python's  pat in s
Contains(s, pat) ==
  \E i \in 1..(Len(s) - Len(pat) + 1) : SubSeq(s, i, i + Len(pat) - 1) = pat

\* str.replace(pat, ''): every occurrence of pat removed, scanning from the left
RECURSIVE StrRemove(_, _)
StrRemove(s, pat) ==
  IF Len(s) < Len(pat) THEN s
  ELSE IF SubSeq(s, 1, Len(pat)) = pat
       THEN StrRemove(SubSeq(s, Len(pat) + 1, Len(s)), pat)
       ELSE <<Head(s)>> \o StrRemove(Tail(s), pat)

DigitChars == <<"0", "1", "2", "3", "4", "5", "6", "7", "8", "9">>
DigitVal(c) == (CHOOSE i \in 1..10 : DigitChars[i] = c) - 1

\* a regex class [lo-hi] of ASCII digits
InClass(c, lo, hi) == \E v \in lo..hi : DigitChars[v + 1] = c

\* the decimal digits of Unicode 14.0 (CPython 3.11), the characters regex \d
\* matches in a str pattern: runs of ten, a run's i-th character the digit
\* i - 1. A character outside ASCII is written by its code point.
DecimalDigits ==
  <<<<"0", "1", "2", "3", "4", "5", "6", "7", "8", "9">>,
   <<"U+0660", "U+0661", "U+0662", "U+0663", "U+0664",
     "U+0665", "U+0666", "U+0667", "U+0668", "U+0669">>,
   <<"U+06F0", "U+06F1", "U+06F2", "U+06F3", "U+06F4",
     "U+06F5", "U+06F6", "U+06F7", "U+06F8", "U+06F9">>,
   <<"U+07C0", "U+07C1", "U+07C2", "U+07C3", "U+07C4",
     "U+07C5", "U+07C6", "U+07C7", "U+07C8", "U+07C9">>,
   <<"U+0966", "U+0967", "U+0968", "U+0969", "U+096A",
     "U+096B", "U+096C", "U+096D", "U+096E", "U+096F">>,
   <<"U+09E6", "U+09E7", "U+09E8", "U+09E9", "U+09EA",
     "U+09EB", "U+09EC", "U+09ED", "U+09EE", "U+09EF">>,
   <<"U+0A66", "U+0A67", "U+0A68", "U+0A69", "U+0A6A",
     "U+0A6B", "U+0A6C", "U+0A6D", "U+0A6E", "U+0A6F">>,
   <<"U+0AE6", "U+0AE7", "U+0AE8", "U+0AE9", "U+0AEA",
     "U+0AEB", "U+0AEC", "U+0AED", "U+0AEE", "U+0AEF">>,
   <<"U+0B66", "U+0B67", "U+0B68", "U+0B69", "U+0B6A",
     "U+0B6B", "U+0B6C", "U+0B6D", "U+0B6E", "U+0B6F">>,
   <<"U+0BE6", "U+0BE7", "U+0BE8", "U+0BE9", "U+0BEA",
     "U+0BEB", "U+0BEC", "U+0BED", "U+0BEE", "U+0BEF">>,
   <<"U+0C66", "U+0C67", "U+0C68", "U+0C69", "U+0C6A",
     "U+0C6B", "U+0C6C", "U+0C6D", "U+0C6E", "U+0C6F">>,
   <<"U+0CE6", "U+0CE7", "U+0CE8", "U+0CE9", "U+0CEA",
     "U+0CEB", "U+0CEC", "U+0CED", "U+0CEE", "U+0CEF">>,
   <<"U+0D66", "U+0D67", "U+0D68", "U+0D69", "U+0D6A",
     "U+0D6B", "U+0D6C", "U+0D6D", "U+0D6E", "U+0D6F">>,
   <<"U+0DE6", "U+0DE7", "U+0DE8", "U+0DE9", "U+0DEA",
     "U+0DEB", "U+0DEC", "U+0DED", "U+0DEE", "U+0DEF">>,
   <<"U+0E50", "U+0E51", "U+0E52", "U+0E53", "U+0E54",
     "U+0E55", "U+0E56", "U+0E57", "U+0E58", "U+0E59">>,
   <<"U+0ED0", "U+0ED1", "U+0ED2", "U+0ED3", "U+0ED4",
     "U+0ED5", "U+0ED6", "U+0ED7", "U+0ED8", "U+0ED9">>,
   <<"U+0F20", "U+0F21", "U+0F22", "U+0F23", "U+0F24",
     "U+0F25", "U+0F26", "U+0F27", "U+0F28", "U+0F29">>,
   <<"U+1040", "U+1041", "U+1042", "U+1043", "U+1044",
     "U+1045", "U+1046", "U+1047", "U+1048", "U+1049">>,
   <<"U+1090", "U+1091", "U+1092", "U+1093", "U+1094",
     "U+1095", "U+1096", "U+1097", "U+1098", "U+1099">>,
   <<"U+17E0", "U+17E1", "U+17E2", "U+17E3", "U+17E4",
     "U+17E5", "U+17E6", "U+17E7", "U+17E8", "U+17E9">>,
   <<"U+1810", "U+1811", "U+1812", "U+1813", "U+1814",
     "U+1815", "U+1816", "U+1817", "U+1818", "U+1819">>,
   <<"U+1946", "U+1947", "U+1948", "U+1949", "U+194A",
     "U+194B", "U+194C", "U+194D", "U+194E", "U+194F">>,
   <<"U+19D0", "U+19D1", "U+19D2", "U+19D3", "U+19D4",
     "U+19D5", "U+19D6", "U+19D7", "U+19D8", "U+19D9">>,
   <<"U+1A80", "U+1A81", "U+1A82", "U+1A83", "U+1A84",
     "U+1A85", "U+1A86", "U+1A87", "U+1A88", "U+1A89">>,
   <<"U+1A90", "U+1A91", "U+1A92", "U+1A93", "U+1A94",
     "U+1A95", "U+1A96", "U+1A97", "U+1A98", "U+1A99">>,
   <<"U+1B50", "U+1B51", "U+1B52", "U+1B53", "U+1B54",
     "U+1B55", "U+1B56", "U+1B57", "U+1B58", "U+1B59">>,
   <<"U+1BB0", "U+1BB1", "U+1BB2", "U+1BB3", "U+1BB4",
     "U+1BB5", "U+1BB6", "U+1BB7", "U+1BB8", "U+1BB9">>,
   <<"U+1C40", "U+1C41", "U+1C42", "U+1C43", "U+1C44",
     "U+1C45", "U+1C46", "U+1C47", "U+1C48", "U+1C49">>,
   <<"U+1C50", "U+1C51", "U+1C52", "U+1C53", "U+1C54",
     "U+1C55", "U+1C56", "U+1C57", "U+1C58", "U+1C59">>,
   <<"U+A620", "U+A621", "U+A622", "U+A623", "U+A624",
     "U+A625", "U+A626", "U+A627", "U+A628", "U+A629">>,
   <<"U+A8D0", "U+A8D1", "U+A8D2", "U+A8D3", "U+A8D4",
     "U+A8D5", "U+A8D6", "U+A8D7", "U+A8D8", "U+A8D9">>,
   <<"U+A900", "U+A901", "U+A902", "U+A903", "U+A904",
     "U+A905", "U+A906", "U+A907", "U+A908", "U+A909">>,
   <<"U+A9D0", "U+A9D1", "U+A9D2", "U+A9D3", "U+A9D4",
     "U+A9D5", "U+A9D6", "U+A9D7", "U+A9D8", "U+A9D9">>,
   <<"U+A9F0", "U+A9F1", "U+A9F2", "U+A9F3", "U+A9F4",
     "U+A9F5", "U+A9F6", "U+A9F7", "U+A9F8", "U+A9F9">>,
   <<"U+AA50", "U+AA51", "U+AA52", "U+AA53", "U+AA54",
     "U+AA55", "U+AA56", "U+AA57", "U+AA58", "U+AA59">>,
   <<"U+ABF0", "U+ABF1", "U+ABF2", "U+ABF3", "U+ABF4",
     "U+ABF5", "U+ABF6", "U+ABF7", "U+ABF8", "U+ABF9">>,
   <<"U+FF10", "U+FF11", "U+FF12", "U+FF13", "U+FF14",
     "U+FF15", "U+FF16", "U+FF17", "U+FF18", "U+FF19">>,
   <<"U+104A0", "U+104A1", "U+104A2", "U+104A3", "U+104A4",
     "U+104A5", "U+104A6", "U+104A7", "U+104A8", "U+104A9">>,
   <<"U+10D30", "U+10D31", "U+10D32", "U+10D33", "U+10D34",
     "U+10D35", "U+10D36", "U+10D37", "U+10D38", "U+10D39">>,
   <<"U+11066", "U+11067", "U+11068", "U+11069", "U+1106A",
     "U+1106B", "U+1106C", "U+1106D", "U+1106E", "U+1106F">>,
   <<"U+110F0", "U+110F1", "U+110F2", "U+110F3", "U+110F4",
     "U+110F5", "U+110F6", "U+110F7", "U+110F8", "U+110F9">>,
   <<"U+11136", "U+11137", "U+11138", "U+11139", "U+1113A",
     "U+1113B", "U+1113C", "U+1113D", "U+1113E", "U+1113F">>,
   <<"U+111D0", "U+111D1", "U+111D2", "U+111D3", "U+111D4",
     "U+111D5", "U+111D6", "U+111D7", "U+111D8", "U+111D9">>,
   <<"U+112F0", "U+112F1", "U+112F2", "U+112F3", "U+112F4",
     "U+112F5", "U+112F6", "U+112F7", "U+112F8", "U+112F9">>,
   <<"U+11450", "U+11451", "U+11452", "U+11453", "U+11454",
     "U+11455", "U+11456", "U+11457", "U+11458", "U+11459">>,
   <<"U+114D0", "U+114D1", "U+114D2", "U+114D3", "U+114D4",
     "U+114D5", "U+114D6", "U+114D7", "U+114D8", "U+114D9">>,
   <<"U+11650", "U+11651", "U+11652", "U+11653", "U+11654",
     "U+11655", "U+11656", "U+11657", "U+11658", "U+11659">>,
   <<"U+116C0", "U+116C1", "U+116C2", "U+116C3", "U+116C4",
     "U+116C5", "U+116C6", "U+116C7", "U+116C8", "U+116C9">>,
   <<"U+11730", "U+11731", "U+11732", "U+11733", "U+11734",
     "U+11735", "U+11736", "U+11737", "U+11738", "U+11739">>,
   <<"U+118E0", "U+118E1", "U+118E2", "U+118E3", "U+118E4",
     "U+118E5", "U+118E6", "U+118E7", "U+118E8", "U+118E9">>,
   <<"U+11950", "U+11951", "U+11952", "U+11953", "U+11954",
     "U+11955", "U+11956", "U+11957", "U+11958", "U+11959">>,
   <<"U+11C50", "U+11C51", "U+11C52", "U+11C53", "U+11C54",
     "U+11C55", "U+11C56", "U+11C57", "U+11C58", "U+11C59">>,
   <<"U+11D50", "U+11D51", "U+11D52", "U+11D53", "U+11D54",
     "U+11D55", "U+11D56", "U+11D57", "U+11D58", "U+11D59">>,
   <<"U+11DA0", "U+11DA1", "U+11DA2", "U+11DA3", "U+11DA4",
     "U+11DA5", "U+11DA6", "U+11DA7", "U+11DA8", "U+11DA9">>,
   <<"U+16A60", "U+16A61", "U+16A62", "U+16A63", "U+16A64",
     "U+16A65", "U+16A66", "U+16A67", "U+16A68", "U+16A69">>,
   <<"U+16AC0", "U+16AC1", "U+16AC2", "U+16AC3", "U+16AC4",
     "U+16AC5", "U+16AC6", "U+16AC7", "U+16AC8", "U+16AC9">>,
   <<"U+16B50", "U+16B51", "U+16B52", "U+16B53", "U+16B54",
     "U+16B55", "U+16B56", "U+16B57", "U+16B58", "U+16B59">>,
   <<"U+1D7CE", "U+1D7CF", "U+1D7D0", "U+1D7D1", "U+1D7D2",
     "U+1D7D3", "U+1D7D4", "U+1D7D5", "U+1D7D6", "U+1D7D7">>,
   <<"U+1D7D8", "U+1D7D9", "U+1D7DA", "U+1D7DB", "U+1D7DC",
     "U+1D7DD", "U+1D7DE", "U+1D7DF", "U+1D7E0", "U+1D7E1">>,
   <<"U+1D7E2", "U+1D7E3", "U+1D7E4", "U+1D7E5", "U+1D7E6",
     "U+1D7E7", "U+1D7E8", "U+1D7E9", "U+1D7EA", "U+1D7EB">>,
   <<"U+1D7EC", "U+1D7ED", "U+1D7EE", "U+1D7EF", "U+1D7F0",
     "U+1D7F1", "U+1D7F2", "U+1D7F3", "U+1D7F4", "U+1D7F5">>,
   <<"U+1D7F6", "U+1D7F7", "U+1D7F8", "U+1D7F9", "U+1D7FA",
     "U+1D7FB", "U+1D7FC", "U+1D7FD", "U+1D7FE", "U+1D7FF">>,
   <<"U+1E140", "U+1E141", "U+1E142", "U+1E143", "U+1E144",
     "U+1E145", "U+1E146", "U+1E147", "U+1E148", "U+1E149">>,
   <<"U+1E2F0", "U+1E2F1", "U+1E2F2", "U+1E2F3", "U+1E2F4",
     "U+1E2F5", "U+1E2F6", "U+1E2F7", "U+1E2F8", "U+1E2F9">>,
   <<"U+1E950", "U+1E951", "U+1E952", "U+1E953", "U+1E954",
     "U+1E955", "U+1E956", "U+1E957", "U+1E958", "U+1E959">>,
   <<"U+1FBF0", "U+1FBF1", "U+1FBF2", "U+1FBF3", "U+1FBF4",
     "U+1FBF5", "U+1FBF6", "U+1FBF7", "U+1FBF8", "U+1FBF9">>>>

IsDecimal(c) ==
  \E r \in 1..Len(DecimalDigits) : \E i \in 1..10 : DecimalDigits[r][i] = c

\* int() of a decimal digit
DecimalVal(c) ==
  (CHOOSE i \in 1..10 : \E r \in 1..Len(DecimalDigits) : DecimalDigits[r][i] = c) - 1

\* the strings pandas reads as a missing date
NaTStrings ==
  {<<"N", "a", "T">>, <<"n", "a", "t">>, <<"N", "A", "T">>,
   <<"n", "a", "n">>, <<"N", "a", "N">>, <<"N", "A", "N">>}

\* the major versions of pandas told apart: before 2.0, and 2.0 or later
PandasMajors == {1, 2}

\* what to_datetime with a format reads as NaT: the NaTStrings, and from
\* pandas 2.0 on the empty string as well
NaTTokens ==
  IF pandas_major >= 2 THEN NaTStrings \cup {<<>>} ELSE NaTStrings

NaTDay == 0
NoDay == -1

\* one element of pd.to_datetime(..., format='%d'): a token pandas reads as
\* NaT gives NaT (NaTDay) before the format is tried; then the %d directive,
\* 3[0-1] | [1-2]\d | 0[1-9] | [1-9] | " "[1-9], is matched in this order and
\* must consume the whole token; NoDay when it does not, and to_datetime raises
ParseDay(tok) ==
  IF tok \in NaTTokens
    THEN NaTDay
  ELSE IF Len(tok) = 2 /\ tok[1] = "3" /\ InClass(tok[2], 0, 1)
    THEN 30 + DigitVal(tok[2])
  ELSE IF Len(tok) = 2 /\ InClass(tok[1], 1, 2) /\ IsDecimal(tok[2])
    THEN 10 * DigitVal(tok[1]) + DecimalVal(tok[2])
  ELSE IF Len(tok) = 2 /\ tok[1] = "0" /\ InClass(tok[2], 1, 9)
    THEN DigitVal(tok[2])
  ELSE IF Len(tok) = 1 /\ InClass(tok[1], 1, 9)
    THEN DigitVal(tok[1])
  ELSE IF Len(tok) = 2 /\ tok[1] = " " /\ InClass(tok[2], 1, 9)
    THEN DigitVal(tok[2])
  ELSE NoDay

NaT == [year |-> 0, month |-> 0, day |-> NaTDay]

\* pd.to_datetime(token, format='%d'): the day in January 1900, or NaT
Timestamp(day) ==
  IF day = NaTDay THEN NaT ELSE [year |-> 1900, month |-> 1, day |-> day]

(***************************************************************************)
(* Reshaper                                                                *)
(***************************************************************************)
\* data: the columns of the wide table in order, each [name, values]
ColumnNames(data) == [i \in 1..Len(data) |-> data[i].name]

HasColumn(data, name) == \E i \in 1..Len(data) : data[i].name = name

ColumnValues(data, name) ==
  data[CHOOSE i \in 1..Len(data) : data[i].name = name].values

\* value_vars=[col for col in df.columns if 'Count_' in col]
ValueVars(data) == SelectSeq(ColumnNames(data), LAMBDA c : Contains(c, CountPrefix))

NumRows(data) == IF data = <<>> THEN 0 ELSE Len(data[1].values)

\* Fault: a melt that leaves out the last value column.
MeltDropLast(data) ==
  LET vv == ValueVars(data)
      n  == NumRows(data)
      codes == ColumnValues(data, RoomCodesName)
      names == ColumnValues(data, RoomsName)
  IN [k \in 1..(n * (Len(vv) - 1)) |->
        LET c == ((k - 1) \div n) + 1
            r == ((k - 1) % n) + 1
        IN [Room_Codes |-> codes[r], Rooms |-> names[r],
            Date |-> vv[c], Alarms |-> ColumnValues(data, vv[c])[r]]]

\* pd.melt: for each value column in order, one row per row of the wide table
Melt(data) ==
  LET vv == ValueVars(data)
      n  == NumRows(data)
      codes == ColumnValues(data, RoomCodesName)
      names == ColumnValues(data, RoomsName)
  IN [k \in 1..(n * Len(vv)) |->
        LET c == ((k - 1) \div n) + 1
            r == ((k - 1) % n) + 1
        IN [Room_Codes |-> codes[r], Rooms |-> names[r],
            Date |-> vv[c], Alarms |-> ColumnValues(data, vv[c])[r]]]

\* pd.melt(..., value_name='Alarms') from pandas 2.0 on raises ValueError,
\* before anything else is looked at, when the frame has a column of that
\* name; earlier versions warn and go on (the column, being neither an id
\* nor a value column, is left out of the result)
ValueNameTaken(data) == pandas_major >= 2 /\ HasColumn(data, AlarmsName)

\* load_and_process_data: [ok, df] or [ok, error]
load_and_process_data(data) ==
  IF ValueNameTaken(data)
    THEN [ok |-> FALSE, error |-> "ValueError"]
  ELSE IF ~(HasColumn(data, RoomCodesName) /\ HasColumn(data, RoomsName))
    THEN [ok |-> FALSE, error |-> "KeyError"]
  ELSE
    LET melted == Melt(data)
        tokens == [k \in 1..Len(melted) |-> StrRemove(melted[k].Date, CountPrefix)]
    IN IF \E k \in 1..Len(melted) : ParseDay(tokens[k]) = NoDay
         THEN [ok |-> FALSE, error |-> "ValueError"]
         ELSE [ok |-> TRUE,
               df |-> [k \in 1..Len(melted) |->
                         [melted[k] EXCEPT !.Date = Timestamp(ParseDay(tokens[k]))]]]

(***************************************************************************)
(* Analyzer                                                                *)
(***************************************************************************)
\* the Alarms column of rows
AlarmsOf(rows) == [i \in 1..Len(rows) |-> rows[i].Alarms]

\* the Room_Codes of rows (a column or the index)
CodesOf(rows) == [i \in 1..Len(rows) |-> rows[i].Room_Codes]

\* the total_alarms column of room_totals rows
TotalsOf(rows) == [i \in 1..Len(rows) |-> rows[i].total_alarms]

\* the days of the Date column of rows
DaysOf(rows) == [i \in 1..Len(rows) |-> rows[i].Date.day]

\* one group of groupby('Date')['Alarms']
DayAlarms(d, day) == AlarmsOf(SelectSeq(d, LAMBDA r : r.Date.day = day))

\* df.groupby('Date')['Alarms'].sum().reset_index(): one row per distinct
\* date, in date order; group-by drops the rows whose key is NaT
DailyTotals(d) ==
  LET days == SortedKeys(SelectSeq(DaysOf(d), LAMBDA day : day # NaTDay))
  IN [i \in 1..Len(days) |->
        [Date |-> Timestamp(days[i]), Alarms |-> SumSeq(DayAlarms(d, days[i]))]]

RoomKeys(d) == SortedKeys(CodesOf(d))

RoomAlarms(d, code) == AlarmsOf(SelectSeq(d, LAMBDA r : r.Room_Codes = code))

\* the four aggregates of one room's Alarms
RoomAgg(code, x) ==
  [Room_Codes |-> code,
   total_alarms |-> SumSeq(x),
   avg_daily_alarms |-> Rat(SumSeq(x), Len(x)),
   max_daily_alarms |-> MaxSeq(x),
   days_with_alarms |-> Len(SelectSeq(x, LAMBDA a : a > 0))]

\* df.groupby('Room_Codes')['Alarms'].agg([...]): one row per code, in code order
RoomGroups(d) ==
  LET codes == RoomKeys(d)
  IN [i \in 1..Len(codes) |-> RoomAgg(codes[i], RoomAlarms(d, codes[i]))]

RECURSIVE Perms(_)
Perms(S) ==
  IF S = {} THEN {<<>>}
  ELSE UNION {{<<x>> \o p : p \in Perms(S \ {x})} : x \in S}

\* Fault: sort_values without ascending=False.
RECURSIVE AscendingOrders(_)
AscendingOrders(rows) ==
  IF rows = {} THEN {<<>>}
  ELSE LET m == CHOOSE t \in {r.total_alarms : r \in rows} :
                  \A r \in rows : r.total_alarms >= t
           low == {r \in rows : r.total_alarms = m}
       IN {p \o q : p \in Perms(low), q \in AscendingOrders(rows \ low)}

\* sort_values('total_alarms', ascending=False) with the default quicksort,
\* which is not stable: every arrangement of the rows with total_alarms
\* descending, rows of equal total in any order
RECURSIVE DescendingOrders(_)
DescendingOrders(rows) ==
  IF rows = {} THEN {<<>>}
  ELSE LET m == CHOOSE t \in {r.total_alarms : r \in rows} :
                  \A r \in rows : r.total_alarms <= t
           top == {r \in rows : r.total_alarms = m}
       IN {p \o q : p \in Perms(top), q \in DescendingOrders(rows \ top)}

\* the values room_totals can take
RoomTotals(d) == DescendingOrders(Range(RoomGroups(d)))

\* floats that need not be rational: NaN, +inf, or sign * sqrt(sq)
NaN == [kind |-> "nan", sign |-> 0, sq |-> Rat(0, 1)]
PosInf == [kind |-> "inf", sign |-> 1, sq |-> Rat(0, 1)]
Root(sign, q) == [kind |-> "root", sign |-> IF q.num = 0 THEN 0 ELSE sign, sq |-> q]

IsFinite(x) == x.kind = "root"

Sign(n) == IF n > 0 THEN 1 ELSE IF n < 0 THEN -1 ELSE 0

\* Series.mean
Mean(x) == Rat(SumSeq(x), Len(x))

\* Series.std, the sample standard deviation (ddof=1): NaN for one value
Std(x) ==
  LET n == Len(x)
      s == SumSeq(x)
      ss == SumSeq([i \in 1..n |-> x[i] * x[i]])
  IN IF n < 2 THEN NaN ELSE Root(1, Rat(n * ss - s * s, n * (n - 1)))

\* Fault: a zero mean guarded by reporting a coefficient of 0.
CvZeroMeanIsZero(std, mean) ==
  IF std.kind = "nan" THEN NaN
  ELSE IF mean.num = 0 THEN Root(1, Rat(0, 1))
  ELSE Root(Sign(mean.num),
            Rat(std.sq.num * mean.den * mean.den, std.sq.den * mean.num * mean.num))

\* std / mean in float arithmetic: 0/0 is NaN, x/0 is +inf for x > 0
CoefficientOfVariation(std, mean) ==
  IF std.kind = "nan" THEN NaN
  ELSE IF mean.num = 0 THEN (IF std.sq.num = 0 THEN NaN ELSE PosInf)
  ELSE Root(Sign(mean.num),
            Rat(std.sq.num * mean.den * mean.den, std.sq.den * mean.num * mean.num))

\* df.groupby('Room_Codes')['Alarms'].agg(['mean', 'std']).reset_index() and cv
RoomStats(d) ==
  LET codes == RoomKeys(d)
  IN [i \in 1..Len(codes) |->
        LET x == RoomAlarms(d, codes[i])
        IN [Room_Codes |-> codes[i], mean |-> Mean(x), std |-> Std(x),
            cv |-> CoefficientOfVariation(Std(x), Mean(x))]]

(***************************************************************************)
(* Visualizer                                                              *)
(***************************************************************************)
TopBarRooms == 10
BarPositions == 10
TickPositions == 10
HeatmapRows == 20
HistBins == 50

\* DataFrame.head(n)
HeadRows(s, n) == SubSeq(s, 1, IF Len(s) < n THEN Len(s) ELSE n)

\* numpy broadcasting of two one-dimensional shapes
Broadcastable(n, m) == n = m \/ n = 1 \/ m = 1

\* plt.bar(range(10), heights) raises when the shapes do not broadcast
BarAccepts(heights) == Broadcastable(BarPositions, Len(heights))

\* plt.xticks(range(10), labels) raises when the number of labels is neither
\* zero nor the number of tick positions (matplotlib 3.3 and later)
TicksAccept(labels) == Len(labels) = 0 \/ Len(labels) = TickPositions

\* Fault: positions taken from range(len(top_10_rooms)), so nothing raises.
BarChartAlwaysDrawn(top) == "drawn"

\* the second panel: plt.bar raises before anything is drawn, or the bars are
\* drawn and plt.xticks raises, or the bars are drawn and labelled
BarChart(top) ==
  IF ~BarAccepts(TotalsOf(top)) THEN "bar raises"
  ELSE IF ~TicksAccept(CodesOf(top)) THEN "xticks raises"
  ELSE "drawn"

\* df.pivot(index='Room_Codes', columns='Date', values='Alarms') raises on a
\* repeated (Room_Codes, Date) pair; NaT is a column key like any other
HasDuplicateEntries(d) ==
  \E i, j \in 1..Len(d) :
    i < j /\ d[i].Room_Codes = d[j].Room_Codes /\ d[i].Date = d[j].Date

\* the index of pivot_data: the room codes in ascending order
PivotIndex(d) == RoomKeys(d)

\* the rows handed to sns.heatmap: pivot_data.head(20)
HeatmapRooms(d) == HeadRows(PivotIndex(d), HeatmapRows)

LinePanel(dt) ==
  [kind |-> "line",
   x |-> [i \in 1..Len(dt) |-> dt[i].Date], y |-> AlarmsOf(dt)]

BarPanel(rt) ==
  LET top == HeadRows(rt, TopBarRooms)
      h == TotalsOf(top)
  IN [kind |-> "bar",
      x |-> [i \in 1..BarPositions |-> i - 1],
      height |-> IF Len(h) = 1 THEN [i \in 1..BarPositions |-> h[1]] ELSE h,
      ticklabels |-> CodesOf(top)]

\* the bars drawn by plt.bar when plt.xticks then raises: the tick positions
\* are set, the labels are not
BarsUnlabelled(rt) == [BarPanel(rt) EXCEPT !.ticklabels = <<>>]

\* the columns of pivot_data are the dates in order, NaT (if any) first
HeatmapPanel(d) ==
  LET days == SortedKeys(DaysOf(d))
      rooms == HeatmapRooms(d)
  IN [kind |-> "heatmap", rows |-> rooms,
      columns |-> [j \in 1..Len(days) |-> Timestamp(days[j])],
      values |-> [i \in 1..Len(rooms) |-> [j \in 1..Len(days) |->
                    (CHOOSE r \in Range(d) :
                       r.Room_Codes = rooms[i] /\ r.Date.day = days[j]).Alarms]]]

HistPanel(d) ==
  [kind |-> "hist", bins |-> HistBins, values |-> AlarmsOf(d)]

\* the style name create_visualizations asks for
StyleName == "seaborn"

\* matplotlib's style library: up to 3.7 it holds 'seaborn'; from 3.8 on the
\* name is gone ('seaborn-v0_8' took its place)
StyleLibraries == {{"ggplot", "seaborn"}, {"ggplot", "seaborn-v0_8"}}

\* create_visualizations: [ok, panels, error]; panels are those drawn on the
\* pyplot figure before the function returned or raised. plt.style.use raises
\* OSError, before the figure is created, when the library lacks the style.
create_visualizations(d, dt, rt) ==
  LET top == HeadRows(rt, TopBarRooms)
      chart == BarChart(top)
      p1 == <<LinePanel(dt)>>
  IN IF StyleName \notin style_library
       THEN [ok |-> FALSE, panels |-> <<>>, error |-> "OSError"]
     ELSE IF chart = "bar raises"
       THEN [ok |-> FALSE, panels |-> p1, error |-> "ValueError"]
     ELSE IF chart = "xticks raises"
       THEN [ok |-> FALSE, panels |-> Append(p1, BarsUnlabelled(rt)),
             error |-> "ValueError"]
     ELSE IF HasDuplicateEntries(d)
       THEN [ok |-> FALSE, panels |-> Append(p1, BarPanel(rt)), error |-> "ValueError"]
     ELSE [ok |-> TRUE,
           panels |-> <<LinePanel(dt), BarPanel(rt), HeatmapPanel(d), HistPanel(d)>>,
           error |-> ""]

(***************************************************************************)
(* Insight Summarizer                                                      *)
(***************************************************************************)
TopRooms == 5
CvThreshold == 1

\* cv > 1 as floats compare: False for NaN, True for +inf
ExceedsThreshold(x) ==
  \/ x.kind = "inf"
  \/ /\ x.kind = "root"
     /\ x.sign = 1
     /\ x.sq.num > CvThreshold * CvThreshold * x.sq.den

\* int(daily_totals['Alarms'].max())
MaxDaily(dt, rt) == MaxSeq(AlarmsOf(dt))

\* Fault: the first five room codes, not the first five of the ranking.
TopRoomsUnranked(rt) ==
  LET codes == SortedKeys(CodesOf(rt))
  IN HeadRows(codes, TopRooms)

\* room_totals.head(5).index.tolist()
TopRoomsOf(rt) == CodesOf(HeadRows(rt, TopRooms))

\* generate_insights: [ok, insights] or [ok, error]. With no row in
\* daily_totals the mean and the maximum are NaN, and int(NaN) raises
\* ValueError
generate_insights(dt, rt, rs) ==
  IF Len(dt) = 0
    THEN [ok |-> FALSE, error |-> "ValueError"]
  ELSE [ok |-> TRUE,
        insights |->
          [total_alarms |-> SumSeq(TotalsOf(rt)),
           avg_daily_alarms |-> Rat(SumSeq(AlarmsOf(dt)), Len(dt)),
           max_daily_alarms |-> MaxDaily(dt, rt),
           top_rooms |-> TopRoomsOf(rt),
           rooms_with_high_variance |->
             CodesOf(SelectSeq(rs, LAMBDA r : ExceedsThreshold(r.cv)))]]

\* f"{n:,}": the sign and the groups of three digits, most significant first
RECURSIVE Groups(_)
Groups(n) == IF n < 1000 THEN <<n>> ELSE Append(Groups(n \div 1000), n % 1000)

Grouped(n) == [negative |-> n < 0, groups |-> Groups(Abs(n))]

\* the bits of a double's significand after the leading one
MantissaBits == 52

\* the exponent of n/c as a float: the e with 2^e <= n/c < 2^(e+1)  (n, c > 0)
RECURSIVE Log2Floor(_, _)
Log2Floor(n, c) ==
  IF n < c THEN Log2Floor(2 * n, c) - 1
  ELSE IF n >= 2 * c THEN Log2Floor(n, 2 * c) + 1
  ELSE 0

\* 2^k mod c
RECURSIVE PowMod2(_, _)
PowMod2(k, c) == IF k = 0 THEN 1 % c ELSE (2 * PowMod2(k - 1, c)) % c

\* the double nearest to n/c (c odd, n/c not an integer) lies above n/c: the
\* part of the binary expansion cut off after the significand exceeds a half
DoubleAbove(n, c) ==
  LET cut == ((n % c) * PowMod2(MantissaBits - Log2Floor(n, c), c)) % c
  IN 2 * cut > c

RECURSIVE OddPart(_)
OddPart(d) == IF d % 2 = 0 THEN OddPart(d \div 2) ELSE d

\* f"{x:.2f}" of the float x = num/den: the number of hundredths. The double
\* is rounded, not the quotient: a quotient halfway between two hundredths
\* goes the way of the double nearest to it, and to the even hundredth only
\* when the double holds it exactly (den a power of two)
Fixed2(q) ==
  LET n == Abs(q.num) * 100
      lo == n \div q.den
      twice == 2 * (n % q.den)
      up == IF twice # q.den THEN twice > q.den
            ELSE IF OddPart(q.den) = 1 THEN lo % 2 = 1
            ELSE DoubleAbove(Abs(q.num), OddPart(q.den))
  IN [negative |-> q.num < 0, hundredths |-> IF up THEN lo + 1 ELSE lo]

\* the lines main prints
ReportLines(ins, rt) ==
  <<[text |-> "Key Insights:"],
    [text |-> "Total Alarms", value |-> Grouped(ins.total_alarms)],
    [text |-> "Average Daily Alarms", value |-> Fixed2(ins.avg_daily_alarms)],
    [text |-> "Maximum Daily Alarms", value |-> Grouped(ins.max_daily_alarms)],
    [text |-> "Top 5 Rooms by Alarm Count:"]>>
  \o [i \in 1..Len(ins.top_rooms) |->
        [text |-> "Room", room |-> ins.top_rooms[i],
         value |-> Grouped((CHOOSE r \in Range(rt) :
                              r.Room_Codes = ins.top_rooms[i]).total_alarms)]]

(***************************************************************************)
(* Inputs: the wide tables your_data is drawn from                         *)
(***************************************************************************)
MaxCells == 4
MaxRooms == 21
MaxProfileDays == 2

CountVals == {-1, 0, 1}

FloorName == <<"F", "l", "o", "o", "r">>

CountCol(tok) == CountPrefix \o tok
OneDigit(day) == <<DigitChars[day + 1]>>
TwoDigit(day) == <<DigitChars[(day \div 10) + 1], DigitChars[(day % 10) + 1]>>

\* Count_01, Count_02, ...: every day in the same two-digit encoding
RegularLayout(D) == [j \in 1..D |-> CountCol(TwoDigit(j))]

\* column orders, encodings and tokens the reshaper does not rule out
IrregularLayouts ==
  {<<CountCol(OneDigit(1))>>,
   <<CountCol(TwoDigit(32))>>,
   <<FloorName, CountCol(TwoDigit(1))>>,
   <<AlarmsName, CountCol(TwoDigit(1))>>,
   <<CountCol(TwoDigit(2)), CountCol(TwoDigit(1))>>,
   <<CountCol(OneDigit(1)), CountCol(TwoDigit(1))>>,
   <<CountCol(TwoDigit(1)), CountCol(OneDigit(2))>>,
   <<CountCol(TwoDigit(1)), CountCol(TwoDigit(32))>>,
   <<CountCol(<<"1", "U+0663">>)>>,
   <<CountCol(TwoDigit(13)), CountCol(<<"1", "U+0663">>)>>,
   <<CountCol(<<"U+0661">>)>>,
   <<CountCol(<<>>)>>,
   <<CountCol(<<"n", "a", "n">>)>>,
   <<CountCol(TwoDigit(1)), CountCol(<<>>)>>,
   <<CountCol(TwoDigit(1)), CountCol(<<"n", "a", "n">>)>>,
   <<CountCol(<<>>), CountCol(<<"n", "a", "n">>)>>}

CountColumnsOf(layout) == SelectSeq(layout, LAMBDA c : Contains(c, CountPrefix))

Layouts(D) ==
  {RegularLayout(D)} \cup {l \in IrregularLayouts : Len(CountColumnsOf(l)) = D}

\* room codes of R rows: ascending, descending, or the last row repeating the
\* first row's code
CodeLayouts(R) ==
  {[i \in 1..R |-> i], [i \in 1..R |-> R + 1 - i],
   [i \in 1..R |-> IF i = R THEN 1 ELSE i]}

\* the wide table with the given codes, columns and count cells
\* (cells[j][i]: the j-th Count_ column, row i)
WideTable(codes, layout, cells) ==
  LET R == Len(codes)
      CountIndex(k) == Len(CountColumnsOf(SubSeq(layout, 1, k)))
  IN <<[name |-> RoomCodesName, values |-> codes],
       [name |-> RoomsName, values |-> [i \in 1..R |-> "Ward"]]>>
     \o [k \in 1..Len(layout) |->
           [name |-> layout[k],
            values |-> IF Contains(layout[k], CountPrefix)
                         THEN cells[CountIndex(k)]
                         ELSE [i \in 1..R |-> "G"]]]

\* every table of at most MaxCells count cells, each cell any of CountVals
SmallTables ==
  UNION {UNION {{WideTable(codes, layout, cells) :
                   codes \in CodeLayouts(R),
                   layout \in Layouts(D),
                   cells \in [1..D -> [1..R -> CountVals]]} :
                D \in 1..(MaxCells \div R)} :
         R \in 1..MaxCells}

\* tables of up to MaxRooms rooms and MaxProfileDays days whose counts rise or
\* fall with the room code
Profiles == {"rising", "falling"}

ProfileCount(profile, R, i, j) ==
  IF profile = "rising" THEN i + j - 1 ELSE R - i + j

\* Count_01, .. in the regular encoding, or the one column Count_ or Count_nan
ProfileLayouts ==
  {RegularLayout(D) : D \in 1..MaxProfileDays}
    \cup {<<CountCol(<<>>)>>, <<CountCol(<<"n", "a", "n">>)>>}

LargeTables ==
  {WideTable([i \in 1..R |-> i], layout,
             [j \in 1..Len(layout) |->
                [i \in 1..R |-> ProfileCount(profile, R, i, j)]]) :
     R \in 1..MaxRooms, layout \in ProfileLayouts, profile \in Profiles}

\* a table without the Rooms identity column
NoRoomsTable ==
  <<[name |-> RoomCodesName, values |-> <<1>>],
    [name |-> CountCol(TwoDigit(1)), values |-> <<1>>]>>

WideTables == SmallTables \cup LargeTables \cup {NoRoomsTable}

(***************************************************************************)
(* main                                                                    *)
(***************************************************************************)
None == <<>>
Some(x) == <<x>>

\* the order of main's statements: the stage that follows each stage
StageAfter(stage) ==
  CASE stage = "load" -> "analyze"
    [] stage = "analyze" -> "visualize"
    [] stage = "visualize" -> "insights"
    [] stage = "insights" -> "report"
    [] stage = "report" -> "done"

\* an exception nothing catches ends the run
Raise(stage, type) ==
  /\ pc' = "failed"
  /\ error' = Some([stage |-> stage, type |-> type])

Init ==
  /\ your_data \in {None} \cup {Some(t) : t \in WideTables}
  /\ style_library \in StyleLibraries
  /\ pandas_major \in PandasMajors
  /\ pc = "load"
  /\ error = None
  /\ df = <<>>
  /\ daily_totals = <<>>
  /\ room_totals = <<>>
  /\ room_stats = <<>>
  /\ figure = <<>>
  /\ fig = None
  /\ insights = None
  /\ report = <<>>

\* df = load_and_process_data(your_data); your_data is a global main reads,
\* a NameError when nothing bound it
DoReshape(next) ==
  /\ IF your_data = None
       THEN Raise("load", "NameError") /\ df' = df
       ELSE LET r == load_and_process_data(your_data[1])
            IN IF r.ok
                 THEN df' = r.df /\ pc' = next /\ error' = error
                 ELSE Raise("load", r.error) /\ df' = df
  /\ UNCHANGED <<your_data, style_library, pandas_major, daily_totals,
                 room_totals, room_stats, figure, fig, insights, report>>

\* daily_totals, room_totals, room_stats = analyze_alarm_patterns(df)
DoAnalyze(next) ==
  /\ daily_totals' = DailyTotals(df)
  /\ room_totals' \in RoomTotals(df)
  /\ room_stats' = RoomStats(df)
  /\ pc' = next
  /\ UNCHANGED <<your_data, style_library, pandas_major, error, df, figure, fig,
                 insights, report>>

\* fig = create_visualizations(df, daily_totals, room_totals)
DoVisualize(next) ==
  /\ LET r == create_visualizations(df, daily_totals, room_totals)
     IN /\ figure' = r.panels
        /\ IF r.ok
             THEN fig' = Some(r.panels) /\ pc' = next /\ error' = error
             ELSE fig' = fig /\ Raise("visualize", r.error)
  /\ UNCHANGED <<your_data, style_library, pandas_major, df, daily_totals,
                 room_totals, room_stats, insights, report>>

\* insights = generate_insights(daily_totals, room_totals, room_stats)
DoSummarize(next) ==
  /\ LET r == generate_insights(daily_totals, room_totals, room_stats)
     IN IF r.ok
          THEN insights' = Some(r.insights) /\ pc' = next /\ error' = error
          ELSE insights' = insights /\ Raise("insights", r.error)
  /\ UNCHANGED <<your_data, style_library, pandas_major, df, daily_totals,
                 room_totals, room_stats, figure, fig, report>>

\* the print statements of main
DoReport(next) ==
  /\ report' = ReportLines(insights[1], room_totals)
  /\ pc' = next
  /\ UNCHANGED <<your_data, style_library, pandas_major, error, df,
                 daily_totals, room_totals, room_stats, figure, fig,
                 insights>>

Reshape == pc = "load" /\ DoReshape(StageAfter("load"))
Analyze == pc = "analyze" /\ DoAnalyze(StageAfter("analyze"))
Visualize == pc = "visualize" /\ DoVisualize(StageAfter("visualize"))
Summarize == pc = "insights" /\ DoSummarize(StageAfter("insights"))
Report == pc = "report" /\ DoReport(StageAfter("report"))

Next == Reshape \/ Analyze \/ Visualize \/ Summarize \/ Report

Spec == Init /\ [][Next]_vars

(***************************************************************************)
(* The functions called one by one: the reshaper, the analyzer, and then   *)
(* either consumer of the analyzer's output on its own                     *)
(***************************************************************************)
CallReshape == pc = "load" /\ your_data # None /\ DoReshape("analyze")
CallAnalyze == pc = "analyze" /\ DoAnalyze("consume")
CallVisualize == pc = "consume" /\ DoVisualize("done")
CallSummarize == pc = "consume" /\ DoSummarize("done")

NextCalls == CallReshape \/ CallAnalyze \/ CallVisualize \/ CallSummarize

SpecCalls == Init /\ [][NextCalls]_vars

(***************************************************************************)
(* What the properties speak of                                            *)
(***************************************************************************)
Failed(stage) == error # None /\ error[1].stage = stage

\* df holds the long table
Reshaped == pc # "load" /\ ~Failed("load")

\* the three aggregate views hold the analyzer's output
Analyzed == Reshaped /\ pc # "analyze"

WideRows == NumRows(your_data[1])
DayColumns == ValueVars(your_data[1])
WideCodes == ColumnValues(your_data[1], RoomCodesName)

UniqueRoomCodes == \A i, j \in 1..Len(WideCodes) : i # j => WideCodes[i] # WideCodes[j]

\* the day tokens of the Count_ columns parse to pairwise distinct dates
DistinctDays ==
  \A i, j \in 1..Len(DayColumns) :
    i # j => ParseDay(StrRemove(DayColumns[i], CountPrefix))
               # ParseDay(StrRemove(DayColumns[j], CountPrefix))

\* your_data has the wide schema: the identity columns Room_Codes and Rooms,
\* and every other column is a Count_<day> column whose token is a day
WideSchema ==
  /\ your_data # None
  /\ HasColumn(your_data[1], RoomCodesName)
  /\ HasColumn(your_data[1], RoomsName)
  /\ \A i \in 1..Len(your_data[1]) :
       LET name == your_data[1][i].name
       IN name \notin {RoomCodesName, RoomsName} =>
            /\ Len(name) > Len(CountPrefix)
            /\ SubSeq(name, 1, Len(CountPrefix)) = CountPrefix
            /\ ParseDay(SubSeq(name, Len(CountPrefix) + 1, Len(name))) \in 1..31

UniquePairs ==
  \A i, j \in 1..Len(df) :
    i # j => <<df[i].Room_Codes, df[i].Date>> # <<df[j].Room_Codes, df[j].Date>>

RECURSIVE SumOver(_, _)
SumOver(f, S) ==
  IF S = {} THEN 0
  ELSE LET i == CHOOSE j \in S : TRUE IN f[i] + SumOver(f, S \ {i})

\* the sum of Alarms over the rows of the long table
LongTotal == SumOver([i \in 1..Len(df) |-> df[i].Alarms], 1..Len(df))

RoomSet == {df[i].Room_Codes : i \in 1..Len(df)}

\* the distinct dates of the long table (NaT is not a date)
DaySet == {df[i].Date.day : i \in 1..Len(df)} \ {NaTDay}

\* the observations of one room, and the sum of one day, read off the long table
Observations(code) == {i \in 1..Len(df) : df[i].Room_Codes = code}
DaySum(day) ==
  SumOver([i \in 1..Len(df) |-> df[i].Alarms], {i \in 1..Len(df) : df[i].Date.day = day})

Min2(a, b) == IF a <= b THEN a ELSE b

(***************************************************************************)
(* C1                                                                      *)
(***************************************************************************)
\* C1 as stated: with unique room codes the long table has R*D rows and no
\* two rows share a (Room_Codes, Date) pair.
C1_AnyTableUniquePairs ==
  (Reshaped /\ UniqueRoomCodes) =>
    (Len(df) = WideRows * Len(DayColumns) /\ UniquePairs)

\* C1 amended: for any wide table with R rooms and D Count_<day> columns
\* load_and_process_data returns a long table; the long table has exactly
\* R*D rows; and no two rows share a (Room_Codes, Date) pair when the room
\* codes are unique and the day tokens of the D columns parse to pairwise
\* distinct dates.
C1_RowCountAndUniquePairs ==
  /\ (WideSchema /\ pc # "load") => Reshaped
  /\ Reshaped =>
       /\ Len(df) = WideRows * Len(DayColumns)
       /\ (UniqueRoomCodes /\ DistinctDays) => UniquePairs

C1_Witness ==
  /\ WideSchema /\ Reshaped /\ UniqueRoomCodes /\ DistinctDays
  /\ WideRows = 2 /\ Len(DayColumns) = 2 /\ Len(df) = 4
  /\ \A i \in 1..Len(df) : df[i].Date # NaT

(***************************************************************************)
(* C2                                                                      *)
(***************************************************************************)
\* C2: the sum of Alarms over the long table equals the sum of total_alarms
\* over room_totals and the sum of Alarms over daily_totals.
C2_AggregationsAgree ==
  Analyzed =>
    /\ SumOver([i \in 1..Len(room_totals) |-> room_totals[i].total_alarms],
               1..Len(room_totals)) = LongTotal
    /\ SumOver([i \in 1..Len(daily_totals) |-> daily_totals[i].Alarms],
               1..Len(daily_totals)) = LongTotal

(***************************************************************************)
(* C3                                                                      *)
(***************************************************************************)
\* C3: room_totals has one row per room code and its total_alarms never
\* increase from one row to the next.
C3_RoomTotalsDescending ==
  Analyzed =>
    /\ \A i \in 1..(Len(room_totals) - 1) :
         room_totals[i].total_alarms >= room_totals[i + 1].total_alarms
    /\ {room_totals[i].Room_Codes : i \in 1..Len(room_totals)} = RoomSet
    /\ Len(room_totals) = Cardinality(RoomSet)

C3_Witness ==
  /\ Analyzed /\ Len(room_totals) >= 3
  /\ room_totals[1].total_alarms > room_totals[3].total_alarms
  /\ room_totals[1].Room_Codes > room_totals[2].Room_Codes

(***************************************************************************)
(* C4                                                                      *)
(***************************************************************************)
\* C4 as stated: for every D >= 1 a room's cv is not a finite number when
\* its mean is zero and is a finite number when its mean is not zero.
C4_UndefinedExactlyAtZeroMean ==
  Analyzed =>
    \A i \in 1..Len(room_stats) :
      IsFinite(room_stats[i].cv) <=> room_stats[i].mean.num # 0

\* C4 amended: a room's cv is not a finite number exactly when its mean is
\* zero or the room has a single observation (D = 1, where the sample
\* standard deviation is undefined); so for D >= 2 it is undefined exactly
\* when the mean is zero.
C4_UndefinedAtZeroMeanOrOneDay ==
  Analyzed =>
    \A i \in 1..Len(room_stats) :
      IsFinite(room_stats[i].cv) <=>
        /\ room_stats[i].mean.num # 0
        /\ Cardinality(Observations(room_stats[i].Room_Codes)) >= 2

C4_Witness ==
  /\ Analyzed /\ Len(daily_totals) >= 2
  /\ \E i, j \in 1..Len(room_stats) :
       /\ room_stats[i].mean.num = 0 /\ room_stats[i].cv.kind = "nan"
       /\ room_stats[j].mean.num # 0 /\ IsFinite(room_stats[j].cv)

(***************************************************************************)
(* C5                                                                      *)
(***************************************************************************)
\* C5: rooms_with_high_variance never lists a room whose mean is zero,
\* whatever its counts; it lists exactly the rooms whose cv is a finite
\* number greater than 1.
C5_HighVarianceExcludesZeroMean ==
  insights # None =>
    LET listed == Range(insights[1].rooms_with_high_variance)
    IN \A i \in 1..Len(room_stats) :
         /\ room_stats[i].mean.num = 0 => room_stats[i].Room_Codes \notin listed
         /\ room_stats[i].Room_Codes \in listed <=>
              /\ IsFinite(room_stats[i].cv)
              /\ room_stats[i].cv.sign = 1
              /\ room_stats[i].cv.sq.num > room_stats[i].cv.sq.den

(***************************************************************************)
(* C6                                                                      *)
(***************************************************************************)
\* C6: insights.total_alarms is the sum of Alarms over the long table, and
\* top_rooms is the first min(5, R) room codes of room_totals, in order.
C6_TotalAndTopRooms ==
  insights # None =>
    /\ insights[1].total_alarms = LongTotal
    /\ Len(insights[1].top_rooms) = Min2(5, Cardinality(RoomSet))
    /\ \A i \in 1..Len(insights[1].top_rooms) :
         insights[1].top_rooms[i] = room_totals[i].Room_Codes

C6_Witness ==
  /\ insights # None /\ Cardinality(RoomSet) > 5
  /\ Len(insights[1].top_rooms) = 5
  /\ insights[1].top_rooms[1] > insights[1].top_rooms[2]

(***************************************************************************)
(* C7                                                                      *)
(***************************************************************************)
\* C7: the rooms of the heat map are the first twenty rooms of the
\* room_totals ranking (all of them when there are fewer than twenty).
C7_HeatmapShowsTopTwenty ==
  fig # None =>
    Range(fig[1][3].rows)
      = {room_totals[i].Room_Codes : i \in 1..Min2(20, Len(room_totals))}

(***************************************************************************)
(* C8                                                                      *)
(***************************************************************************)
\* C8: a failure in any stage ends the run: nothing runs after it, no
\* figure was produced (main has none and the four charts were not all
\* drawn) and nothing was printed.
C8_FailureAbortsRun ==
  pc = "failed" =>
    /\ error # None
    /\ ~ENABLED Next
    /\ fig = None
    /\ Len(figure) < 4
    /\ report = <<>>

(***************************************************************************)
(* C9                                                                      *)
(***************************************************************************)
\* C9: avg_daily_alarms times the number of distinct dates is total_alarms,
\* and max_daily_alarms is the largest per-date sum of Alarms over all rooms.
C9_DailyAverageAndMaximum ==
  insights # None =>
    /\ insights[1].avg_daily_alarms.num * Cardinality(DaySet)
         = insights[1].total_alarms * insights[1].avg_daily_alarms.den
    /\ \E day \in DaySet : insights[1].max_daily_alarms = DaySum(day)
    /\ \A day \in DaySet : insights[1].max_daily_alarms >= DaySum(day)

(***************************************************************************)
(* C10                                                                     *)
(***************************************************************************)
\* C10: the stages run in the order reshape, analyze, visualize, insights,
\* report; insights are computed only once the visualizer has returned; and
\* with fewer than 10 rooms the visualizer fails, so the insights are never
\* computed or printed.
C10_InsightsOnlyAfterFigure ==
  /\ report # <<>> => insights # None
  /\ insights # None => fig # None
  /\ fig # None => Analyzed
  /\ pc \in {"insights", "report", "done"} => fig # None
  /\ (Analyzed /\ Len(room_totals) < 10) =>
       /\ insights = None /\ report = <<>>
       /\ pc \in {"visualize", "failed"}
       /\ pc = "failed" => Failed("visualize")

C10_Witness ==
  /\ pc = "failed" /\ Failed("visualize")
  /\ Len(room_totals) \in 2..9 /\ UniquePairs
  /\ insights = None /\ report = <<>>

====
